---- MODULE Spec2Model ----
(***************************************************************************)
(* The environment-provisioning pipeline of the hello_qgis plugin:         *)
(* VenvMaintainer (venv_maintainer.py) driven by HelloQGISPlugin           *)
(* (plugin.py).  The host's UI thread is the only thread: it runs the      *)
(* constructor, the QProcess signal handlers and unload().  External       *)
(* processes and the network run beside it.                                *)
(***************************************************************************)
EXTENDS Integers, Sequences, FiniteSets, TLC

\* ------------------------------------------------------------------ bounds
MaxPkgs == 2          \* longest packages list drawn by Init
MaxChunks == 1        \* output-ready notifications delivered in one run
MaxTicks == 2         \* seconds the clock is followed for

\* --------------------------------------------------------------- constants
PkgNames == {"pkgA", "pkgB"}
\* Package names that look like pieces of a command line
OddPkgNames == {"venv", "-m"}
\* timeout_per_cmd as a caller can pass it; 900 is the default
Timeouts == {0, 1, 900}
ExitCodes == {0, 1, 2}
Platforms == {"win32", "linux"}

\* sys.executable (the interpreter running the host)
sys_executable == "sys.executable"

\* What shutil.which("python.exe") can answer on Windows: nothing, a user
\* install, the host's interpreter under a "QGIS ..." directory, an
\* embeddable distribution, the host's interpreter of an OSGeo4W install.
WhichResults ==
  { "None",
    "C:/Users/u/Python312/python.exe",
    "C:/Program Files/QGIS 3.34/bin/python.exe",
    "C:/tools/python_embed/python.exe",
    "C:/OSGeo4W/apps/Python312/python.exe" }

\* The text of a path, as the pieces the substring tests can tell apart.
PathText(p) ==
  CASE p = "C:/Users/u/Python312/python.exe" ->
         <<"C:/Users/u/Python312/python.exe">>
    [] p = "C:/Program Files/QGIS 3.34/bin/python.exe" ->
         <<"C:/Program Files/", "QGIS", " 3.34/bin/python.exe">>
    [] p = "C:/tools/python_embed/python.exe" ->
         <<"C:/tools/", "python_embed", "/python.exe">>
    [] p = "C:/OSGeo4W/apps/Python312/python.exe" ->
         <<"C:/OSGeo4W/apps/Python312/python.exe">>
    [] OTHER -> <<p>>

\* The interpreters that are the host application's own: the one shipped by
\* the standalone installer and the one of an OSGeo4W install.
HostInterpreter(p) ==
  p \in {"C:/Program Files/QGIS 3.34/bin/python.exe",
         "C:/OSGeo4W/apps/Python312/python.exe"}

\* needle in path  (Python's substring test on str)
InPath(needle, p) == \E i \in 1..Len(PathText(p)) : PathText(p)[i] = needle

\* The fallback locations of _get_python_executable, in its order.
Candidates ==
  << "HOME/AppData/Local/Programs/Python/Python312/python.exe",
     "C:/Python312/python.exe",
     "C:/Program Files/Python312/python.exe" >>

NoInterpreter == "RuntimeError"

\* The fallback installs of the machines the pipeline is run on: none, the
\* second location alone, the first and the third.
FallbackInstalls == { {}, {Candidates[2]}, {Candidates[1], Candidates[3]} }

VARIABLES
  \* the machine
  platform,          \* sys.platform
  which_python,      \* shutil.which("python.exe")
  existing,          \* the fallback locations that are files
  clock,             \* seconds a child of self.process has been running for
  venv_dir_exists,   \* Path(venv_dir).is_dir()
  venv_py_exists,    \* venv_py is a file
  pip_present,       \* pip_path.is_file()
  get_pip_file,      \* venv_py.parent / "get-pip.py" exists
  \* the caller
  packages,          \* the packages argument
  timeout_per_cmd,   \* the timeout_per_cmd argument
  venv_update_process, \* HelloQGISPlugin._venv_update_process
  \* VenvMaintainer
  commands, step, output,
  progress_value, progress_max, progress_format, message_bar_id,
  procState,         \* self.process.state()
  procExit,          \* <<code>> once the child has exited and finished() is not yet delivered
  \* the UI thread
  pc,                \* where the UI thread is: the event loop ("idle") or a blocking call
  hfExit,            \* exitCode of the handle_finished call the thread is inside
  \* history
  launched,          \* argv of every process.start, in order
  exitCodes,         \* exitCode of every handle_finished, in order
  onDoneCalls,       \* every on_done invocation, in order
  inflight,          \* children of self.process running now
  subprocs,          \* children of the subprocess module running now
  killed,            \* _cleanup_process killed a running child
  raised,            \* an exception left maintain_venv_and_packages
  cancelled,         \* unload() has run _cleanup_process
  chunks,            \* output-ready notifications delivered so far
  fetches,           \* get-pip.py downloads attempted
  bootExits          \* exit code of every get-pip.py run, in order

envVars == <<platform, which_python, existing, clock, timeout_per_cmd>>
fsVars == <<venv_dir_exists, venv_py_exists, pip_present, get_pip_file>>
progressVars == <<progress_value, progress_max, progress_format, message_bar_id>>
pipeVars == <<commands, step, output, procState, procExit>>
histVars == <<launched, exitCodes, onDoneCalls, inflight, subprocs, killed, raised, cancelled,
             chunks, fetches, bootExits>>
vars == <<envVars, fsVars, packages, venv_update_process, pipeVars, progressVars,
          pc, hfExit, histVars>>

\* ------------------------------------------------------------ path helpers
\* venv_path_for_plugin(plugin_dir, name)
venv_dir == "plugin_dir/venv"

\* venv_python_executable(venv_dir)
venv_python_executable(plat) ==
  IF plat = "win32" THEN "plugin_dir/venv/Scripts/python.exe"
                    ELSE "plugin_dir/venv/bin/python"

\* ---------------------------------------------------- InterpreterLocator
\* The first fallback location that is a file, or NoInterpreter.
RECURSIVE FirstCandidate(_, _)
FirstCandidate(i, files) ==
  IF i > Len(Candidates) THEN NoInterpreter
  ELSE IF Candidates[i] \in files THEN Candidates[i]
  ELSE FirstCandidate(i + 1, files)

\* VenvMaintainer._get_python_executable; NoInterpreter stands for the raise.
_get_python_executable(plat, which, files) ==
  IF plat = "win32"
  THEN IF which # "None" /\ ~InPath("QGIS", which) /\ ~InPath("python_embed", which)
       THEN which
       ELSE FirstCandidate(1, files)
  ELSE sys_executable

\* ----------------------------------------------------------- CommandPlanner
PipUpgradeCmd(venv_py) ==
  <<venv_py, "-m", "pip", "install", "--upgrade", "pip", "setuptools", "wheel">>
UvInstallCmd(venv_py) == <<venv_py, "-m", "pip", "install", "uv">>
PkgCmd(venv_py, pkg) == <<venv_py, "-m", "uv", "pip", "install", "--upgrade", pkg>>

\* build_commands installing the packages from a set (duplicates dropped,
\* the list's order lost: here, the order reversed).
build_commands_unordered(python_exe, plat, dirExists, pkgs) ==
  (IF ~dirExists THEN << <<python_exe, "-m", "venv", venv_dir>> >> ELSE << >>)
  \o << PipUpgradeCmd(venv_python_executable(plat)),
        UvInstallCmd(venv_python_executable(plat)) >>
  \o [k \in 1..Len(pkgs) |->
        PkgCmd(venv_python_executable(plat), pkgs[Len(pkgs) + 1 - k])]

\* build_commands testing the venv's interpreter instead of its directory.
build_commands_test_py(python_exe, plat, dirExists, pkgs) ==
  (IF ~venv_py_exists THEN << <<python_exe, "-m", "venv", venv_dir>> >> ELSE << >>)
  \o << PipUpgradeCmd(venv_python_executable(plat)),
        UvInstallCmd(venv_python_executable(plat)) >>
  \o [k \in 1..Len(pkgs) |-> PkgCmd(venv_python_executable(plat), pkgs[k])]

\* build_commands installing uv before pip is upgraded.
build_commands_uv_first(python_exe, plat, dirExists, pkgs) ==
  (IF ~dirExists THEN << <<python_exe, "-m", "venv", venv_dir>> >> ELSE << >>)
  \o << UvInstallCmd(venv_python_executable(plat)),
        PipUpgradeCmd(venv_python_executable(plat)) >>
  \o [k \in 1..Len(pkgs) |-> PkgCmd(venv_python_executable(plat), pkgs[k])]

\* VenvMaintainer.build_commands, given the interpreter found
build_commands(python_exe, plat, dirExists, pkgs) ==
  (IF ~dirExists THEN << <<python_exe, "-m", "venv", venv_dir>> >> ELSE << >>)
  \o << PipUpgradeCmd(venv_python_executable(plat)),
        UvInstallCmd(venv_python_executable(plat)) >>
  \o [k \in 1..Len(pkgs) |-> PkgCmd(venv_python_executable(plat), pkgs[k])]

\* ---------------------------------------------------------------- Init
\* Sequences over S of length at most n
SeqsUpTo(S, n) == UNION {[1..k -> S] : k \in 0..n}

\* The plugin is loaded and has not yet asked for provisioning.  The machine
\* is any machine: an environment directory can exist without its
\* interpreter (a venv that was half deleted), not the other way round.
Init ==
  /\ platform \in Platforms
  /\ which_python \in (IF platform = "win32" THEN WhichResults ELSE {"None"})
  /\ existing \in (IF platform = "win32" THEN FallbackInstalls ELSE {{}})
  /\ venv_dir_exists \in BOOLEAN
  /\ venv_py_exists \in (IF venv_dir_exists THEN BOOLEAN ELSE {FALSE})
  /\ pip_present \in (IF venv_py_exists THEN BOOLEAN ELSE {FALSE})
  /\ get_pip_file = FALSE
  /\ packages \in SeqsUpTo(PkgNames, MaxPkgs)
  /\ timeout_per_cmd = 900 /\ clock = 0
  /\ venv_update_process = "unset"
  /\ commands = << >> /\ step = 0 /\ output = << >>
  /\ procState = "NotRunning" /\ procExit = << >>
  /\ progress_value = 0 /\ progress_max = 0 /\ progress_format = ""
  /\ message_bar_id = "None"
  /\ pc = "idle" /\ hfExit = << >>
  /\ launched = << >> /\ exitCodes = << >> /\ onDoneCalls = << >>
  /\ inflight = {} /\ subprocs = {} /\ killed = FALSE
  /\ raised = FALSE /\ cancelled = FALSE
  /\ chunks = 0 /\ fetches = 0 /\ bootExits = << >>

\* ------------------------------------------------------ ProgressReporter
\* QProgressBar.setValue: a value outside [minimum, maximum] is ignored
setValue(old, v, max) == IF 0 <= v /\ v <= max THEN v ELSE old

\* ------------------------------------------------ ProcessPipelineExecutor
\* QProcess.start(cmd[0], cmd[1:]): the child runs only if its program exists
\* (otherwise errorOccurred is emitted, to which nothing is connected, and
\* finished never is).
Startable(cmd) ==
  IF cmd[1] = venv_python_executable(platform) THEN venv_py_exists ELSE TRUE

\* on_done handed the tail of the output shown in the message bar (nothing,
\* when there was no output) instead of self.output.
OnDone_last_lines(success) ==
  onDoneCalls' = Append(onDoneCalls,
                        [success |-> success, venv_dir |-> venv_dir, output |-> << >>])

\* on_done(success, self.venv_dir, self.output).  on_done is the callback the
\* plugin passes (plugin.py line 470), so the "if self.on_done" tests pass.
OnDone(success) ==
  onDoneCalls' = Append(onDoneCalls,
                        [success |-> success, venv_dir |-> venv_dir, output |-> output])

\* run_next_command with the end test off by one (step >= len - 1): the last
\* command is never run.
run_next_command_early(cmds, pmax, fmt) ==
  IF step >= Len(cmds) - 1
  THEN /\ progress_value' = setValue(progress_value, pmax, pmax)
       /\ progress_format' = "Venv update completed!"
       /\ OnDone(TRUE)
       /\ procState' = "NotRunning"
       /\ UNCHANGED <<step, output, launched, inflight>>
  ELSE /\ step' = step + 1
       /\ progress_value' = setValue(progress_value, progress_value + 1, pmax)
       /\ progress_format' = fmt
       /\ output' = Append(output, <<"Running", step + 1>>)
       /\ launched' = Append(launched, cmds[step + 1])
       /\ IF Startable(cmds[step + 1])
          THEN procState' = "Running" /\ inflight' = inflight \cup {<<"cmd", step + 1>>}
          ELSE procState' = "NotRunning" /\ inflight' = inflight
       /\ UNCHANGED onDoneCalls

\* run_next_command taking the commands from the end of the list (pop()).
run_next_command_pop(cmds, pmax, fmt) ==
  IF step >= Len(cmds)
  THEN /\ progress_value' = setValue(progress_value, pmax, pmax)
       /\ progress_format' = "Venv update completed!"
       /\ OnDone(TRUE)
       /\ procState' = "NotRunning"
       /\ UNCHANGED <<step, output, launched, inflight>>
  ELSE /\ step' = step + 1
       /\ progress_value' = setValue(progress_value, progress_value + 1, pmax)
       /\ progress_format' = fmt
       /\ output' = Append(output, <<"Running", step + 1>>)
       /\ launched' = Append(launched, cmds[Len(cmds) - step])
       /\ IF Startable(cmds[Len(cmds) - step])
          THEN procState' = "Running" /\ inflight' = inflight \cup {<<"cmd", step + 1>>}
          ELSE procState' = "NotRunning" /\ inflight' = inflight
       /\ UNCHANGED onDoneCalls

\* VenvMaintainer.run_next_command, for a maintainer whose commands are cmds
\* and whose progress bar has maximum pmax and format fmt.
run_next_command(cmds, pmax, fmt) ==
  IF step >= Len(cmds)
  THEN \* _finish_progress, on_done(True, ...)
       /\ progress_value' = setValue(progress_value, pmax, pmax)
       /\ progress_format' = "Venv update completed!"
       /\ OnDone(TRUE)
       /\ procState' = "NotRunning"
       /\ UNCHANGED <<step, output, launched, inflight>>
  ELSE LET cmd == cmds[step + 1] IN
       /\ step' = step + 1
       /\ progress_value' = setValue(progress_value, progress_value + 1, pmax)
       /\ progress_format' = fmt
       /\ output' = Append(output, <<"Running", step + 1>>)
       /\ launched' = Append(launched, cmd)
       /\ IF Startable(cmd)
          THEN procState' = "Running" /\ inflight' = inflight \cup {<<"cmd", step + 1>>}
          ELSE procState' = "NotRunning" /\ inflight' = inflight
       /\ UNCHANGED onDoneCalls

\* maintain_venv_and_packages with the progress widget pushed before the
\* commands are built.
maintain_venv_and_packages_show_first ==
  /\ venv_update_process = "unset" /\ ~raised /\ ~cancelled /\ pc = "idle"
  /\ message_bar_id' = "widget"
  /\ LET python_exe == _get_python_executable(platform, which_python, existing) IN
     IF python_exe = NoInterpreter
     THEN /\ raised' = TRUE
          /\ UNCHANGED <<envVars, fsVars, packages, bootExits, venv_update_process, pipeVars,
                         progress_value, progress_max, progress_format, pc, hfExit,
                         launched, exitCodes, onDoneCalls,
                         inflight, subprocs, killed, cancelled, chunks, fetches>>
     ELSE LET cmds == build_commands(python_exe, platform, venv_dir_exists, packages) IN
          /\ commands' = cmds
          /\ progress_max' = Len(cmds)
          /\ run_next_command(cmds, Len(cmds), "Venv update started...")
          /\ venv_update_process' = "maintainer"
          /\ UNCHANGED <<envVars, fsVars, packages, bootExits, procExit, pc, hfExit, exitCodes,
                         subprocs, killed, raised, cancelled, chunks, fetches>>

\* maintain_venv_and_packages with the progress bar's maximum set to the
\* number of packages (setMaximum(len(self.packages))).
maintain_venv_and_packages_pkg_total ==
  /\ venv_update_process = "unset" /\ ~raised /\ ~cancelled /\ pc = "idle"
  /\ LET python_exe == _get_python_executable(platform, which_python, existing) IN
     IF python_exe = NoInterpreter
     THEN /\ raised' = TRUE
          /\ UNCHANGED <<envVars, fsVars, packages, bootExits, venv_update_process, pipeVars,
                         progressVars, pc, hfExit, launched, exitCodes, onDoneCalls,
                         inflight, subprocs, killed, cancelled, chunks, fetches>>
     ELSE LET cmds == build_commands(python_exe, platform, venv_dir_exists, packages) IN
          /\ commands' = cmds
          /\ progress_max' = Len(packages)
          /\ message_bar_id' = "widget"
          /\ run_next_command(cmds, Len(packages), "Venv update started...")
          /\ venv_update_process' = "maintainer"
          /\ UNCHANGED <<envVars, fsVars, packages, bootExits, procExit, pc, hfExit, exitCodes,
                         subprocs, killed, raised, cancelled, chunks, fetches>>

\* maintain_venv_and_packages as the plugin calls it from initGui:
\* VenvMaintainer.__init__ (build_commands, the process, the progress bar,
\* start) and then plugin_instance._venv_update_process = process.
\* When _get_python_executable raises, the RuntimeError leaves __init__ at
\* line 81 and maintain_venv_and_packages at line 265.
maintain_venv_and_packages ==
  /\ venv_update_process = "unset" /\ ~raised /\ ~cancelled /\ pc = "idle"
  /\ LET python_exe == _get_python_executable(platform, which_python, existing) IN
     IF python_exe = NoInterpreter
     THEN /\ raised' = TRUE
          /\ UNCHANGED <<envVars, fsVars, packages, bootExits, venv_update_process, pipeVars,
                         progressVars, pc, hfExit, launched, exitCodes, onDoneCalls,
                         inflight, subprocs, killed, cancelled, chunks, fetches>>
     ELSE LET cmds == build_commands(python_exe, platform, venv_dir_exists, packages) IN
          /\ commands' = cmds
          /\ progress_max' = Len(cmds)
          /\ message_bar_id' = "widget"
          /\ run_next_command(cmds, Len(cmds), "Venv update started...")
          /\ venv_update_process' = "maintainer"
          /\ UNCHANGED <<envVars, fsVars, packages, bootExits, procExit, pc, hfExit, exitCodes,
                         subprocs, killed, raised, cancelled, chunks, fetches>>

\* handle_stdout also run for output read after finished() was handled.
handle_stdout_late ==
  /\ venv_update_process = "maintainer" /\ pc = "idle"
  /\ step > 0 /\ chunks < MaxChunks
  /\ output' = Append(output, <<"stdout", step>>)
  /\ chunks' = chunks + 1
  /\ UNCHANGED <<envVars, fsVars, packages, bootExits, venv_update_process, commands, step,
                 procState, procExit, progressVars, pc, hfExit, launched, exitCodes,
                 onDoneCalls, inflight, subprocs, killed, raised, cancelled, fetches>>

\* handle_stdout: readyReadStandardOutput of the running child
handle_stdout ==
  /\ venv_update_process = "maintainer" /\ pc = "idle"
  /\ procState = "Running" /\ chunks < MaxChunks
  /\ output' = Append(output, <<"stdout", step>>)
  /\ chunks' = chunks + 1
  /\ UNCHANGED <<envVars, fsVars, packages, bootExits, venv_update_process, commands, step,
                 procState, procExit, progressVars, pc, hfExit, launched, exitCodes,
                 onDoneCalls, inflight, subprocs, killed, raised, cancelled, fetches>>

\* handle_stderr assigning instead of appending (self.output = err).
handle_stderr_assign ==
  /\ venv_update_process = "maintainer" /\ pc = "idle"
  /\ procState = "Running" /\ chunks < MaxChunks
  /\ output' = << <<"stderr", step>> >>
  /\ chunks' = chunks + 1
  /\ UNCHANGED <<envVars, fsVars, packages, bootExits, venv_update_process, commands, step,
                 procState, procExit, progressVars, pc, hfExit, launched, exitCodes,
                 onDoneCalls, inflight, subprocs, killed, raised, cancelled, fetches>>

\* handle_stderr: readyReadStandardError of the running child (also logged)
handle_stderr ==
  /\ venv_update_process = "maintainer" /\ pc = "idle"
  /\ procState = "Running" /\ chunks < MaxChunks
  /\ output' = Append(output, <<"stderr", step>>)
  /\ chunks' = chunks + 1
  /\ UNCHANGED <<envVars, fsVars, packages, bootExits, venv_update_process, commands, step,
                 procState, procExit, progressVars, pc, hfExit, launched, exitCodes,
                 onDoneCalls, inflight, subprocs, killed, raised, cancelled, fetches>>

\* What `python -m venv <dir>` leaves behind when it exits with code e: on 0
\* the directory and its interpreter (pip only if ensurepip worked), otherwise
\* any part of the directory, without pip.
VenvEffect(e) ==
  IF e = 0
  THEN /\ venv_dir_exists' = TRUE /\ venv_py_exists' = TRUE
       /\ pip_present' \in BOOLEAN
  ELSE /\ venv_dir_exists' \in {venv_dir_exists, TRUE}
       /\ venv_py_exists' \in (IF venv_dir_exists' THEN {venv_py_exists, TRUE} ELSE {FALSE})
       /\ pip_present' = pip_present

\* The child of self.process exits (the operating system's step; Qt has not
\* yet delivered finished()).
ProcessExits ==
  /\ procState = "Running" /\ procExit = << >> /\ <<"cmd", step>> \in inflight
  /\ \E e \in ExitCodes :
       /\ procExit' = <<e>>
       /\ IF SubSeq(commands[step], 2, 3) = <<"-m", "venv">>
          THEN VenvEffect(e)
          ELSE UNCHANGED <<venv_dir_exists, venv_py_exists, pip_present>>
  /\ inflight' = inflight \ {<<"cmd", step>>}
  /\ UNCHANGED <<envVars, get_pip_file, packages, bootExits, venv_update_process, commands, step,
                 output, procState, progressVars, pc, hfExit, launched, exitCodes,
                 onDoneCalls, subprocs, killed, raised, cancelled, chunks, fetches>>

\* is_venv_creation looking only for a module run (just_ran[1] == "-m").
is_venv_creation_any(just_ran) ==
  Len(just_ran) >= 3 /\ just_ran[2] = "-m"

\* is_venv_creation looking for the word anywhere ("venv" in just_ran).
is_venv_creation_by_name(just_ran) ==
  \E k \in 1..Len(just_ran) : just_ran[k] = "venv"

\* handle_finished line 234: is the command that just ran the venv creation?
is_venv_creation(just_ran) ==
  Len(just_ran) >= 3 /\ SubSeq(just_ran, 2, 3) = <<"-m", "venv">>

\* handle_finished testing exitCode == 1 instead of exitCode != 0.
FinishTail_only1(e) ==
  IF e = 1
  THEN /\ progress_format' = "Venv update failed"
       /\ OnDone(FALSE)
       /\ procState' = "NotRunning"
       /\ UNCHANGED <<step, output, launched, inflight, progress_value>>
  ELSE run_next_command(commands, progress_max, progress_format)

\* handle_finished without the return at line 251: after on_done(False, ...)
\* the next command is started all the same.
FinishTail_noreturn(e) ==
  IF e # 0 /\ step < Len(commands)
  THEN /\ progress_format' = "Venv update failed"
       /\ OnDone(FALSE)
       /\ step' = step + 1
       /\ progress_value' = setValue(progress_value, progress_value + 1, progress_max)
       /\ output' = Append(output, <<"Running", step + 1>>)
       /\ launched' = Append(launched, commands[step + 1])
       /\ procState' = "Running"
       /\ inflight' = inflight \cup {<<"cmd", step + 1>>}
  ELSE IF e # 0
  THEN /\ progress_format' = "Venv update failed"
       /\ OnDone(FALSE)
       /\ procState' = "NotRunning"
       /\ UNCHANGED <<step, output, launched, inflight, progress_value>>
  ELSE run_next_command(commands, progress_max, progress_format)

\* handle_finished rewinding the pipeline when a command fails (so that a
\* later call starts over).
FinishTail_rewind(e) ==
  IF e # 0
  THEN /\ progress_format' = "Venv update failed"
       /\ OnDone(FALSE)
       /\ procState' = "NotRunning"
       /\ step' = 0
       /\ UNCHANGED <<output, launched, inflight, progress_value>>
  ELSE run_next_command(commands, progress_max, progress_format)

\* handle_finished lines 243-252, for exit code e: fail, or go on.  The
\* message box of line 249 is shown after on_done and changes no state.
FinishTail(e) ==
  IF e # 0
  THEN \* _fail_progress, on_done(False, ...), the message box, return
       /\ progress_format' = "Venv update failed"
       /\ OnDone(FALSE)
       /\ procState' = "NotRunning"
       /\ UNCHANGED <<step, output, launched, inflight, progress_value>>
  ELSE run_next_command(commands, progress_max, progress_format)

\* handle_finished(exitCode, _): finished() of the child.  When the venv was
\* just created and pip is missing, the handler enters ensure_pip_in_venv and
\* the UI thread waits in urlretrieve (line 142).
handle_finished ==
  /\ venv_update_process = "maintainer" /\ pc = "idle"
  /\ procState = "Running" /\ procExit # << >>
  /\ LET e == procExit[1]
         just_ran == IF step > 0 THEN commands[step] ELSE << >> IN
     /\ exitCodes' = Append(exitCodes, e)
     /\ procExit' = << >>
     /\ IF is_venv_creation(just_ran) /\ ~pip_present
        THEN /\ pc' = "urlretrieve" /\ hfExit' = <<e>>
             /\ fetches' = fetches + 1
             /\ procState' = "NotRunning"
             /\ UNCHANGED <<step, output, launched, inflight, onDoneCalls,
                            progress_value, progress_format>>
        ELSE /\ FinishTail(e)
             /\ UNCHANGED <<pc, hfExit, fetches>>
  /\ UNCHANGED <<envVars, fsVars, packages, bootExits, venv_update_process, commands,
                 progress_max, message_bar_id, subprocs, killed, raised, cancelled,
                 chunks>>

\* ensure_pip_in_venv starting get-pip.py without waiting for it (Popen in
\* place of check_call): the handler goes on while the script runs.
urlretrieve_returns_popen ==
  /\ pc = "urlretrieve"
  /\ \E outcome \in {"ok", "failed"} :
       \/ /\ outcome = "failed"
          /\ UNCHANGED <<get_pip_file, subprocs>>
       \/ /\ outcome = "ok" /\ venv_dir_exists /\ venv_py_exists
          /\ get_pip_file' = TRUE
          /\ subprocs' = subprocs \cup {<<"get-pip.py", step>>}
  /\ FinishTail(hfExit[1])
  /\ pc' = "idle" /\ hfExit' = << >>
  /\ UNCHANGED <<envVars, venv_dir_exists, venv_py_exists, pip_present, packages, bootExits,
                 venv_update_process, commands, procExit, progress_max, message_bar_id,
                 exitCodes, killed, raised, cancelled, chunks, fetches>>

\* ensure_pip_in_venv lines 141-149: urlretrieve returns or raises.  A download
\* that raises part-way leaves what it wrote; the code returns at line 145.
\* After a download, check_call (line 149) starts the venv's interpreter on
\* the script and the UI thread waits for it; if that interpreter is missing
\* check_call raises at once and the except/finally clauses run.
urlretrieve_returns ==
  /\ pc = "urlretrieve"
  /\ \E outcome \in {"ok", "failed", "partial"} :
       \/ /\ outcome = "failed"
          /\ FinishTail(hfExit[1])
          /\ pc' = "idle" /\ hfExit' = << >>
          /\ UNCHANGED <<get_pip_file, subprocs>>
       \/ /\ outcome = "partial" /\ venv_dir_exists
          /\ get_pip_file' = TRUE
          /\ FinishTail(hfExit[1])
          /\ pc' = "idle" /\ hfExit' = << >>
          /\ UNCHANGED subprocs
       \/ /\ outcome = "ok" /\ venv_dir_exists /\ venv_py_exists
          /\ get_pip_file' = TRUE
          /\ pc' = "check_call"
          /\ subprocs' = subprocs \cup {<<"get-pip.py", step>>}
          /\ UNCHANGED <<hfExit, step, output, launched, inflight, onDoneCalls,
                         progress_value, progress_format, procState>>
       \/ /\ outcome = "ok" /\ venv_dir_exists /\ ~venv_py_exists
          /\ get_pip_file' = FALSE
          /\ FinishTail(hfExit[1])
          /\ pc' = "idle" /\ hfExit' = << >>
          /\ UNCHANGED subprocs
  /\ UNCHANGED <<envVars, venv_dir_exists, venv_py_exists, pip_present, packages, bootExits,
                 venv_update_process, commands, procExit, progress_max, message_bar_id,
                 exitCodes, killed, raised, cancelled, chunks, fetches>>

\* ensure_pip_in_venv letting CalledProcessError decide: a get-pip.py that
\* exits non-zero fails the pipeline even when pip is there afterwards.
check_call_returns_strict ==
  /\ pc = "check_call"
  /\ \E e2 \in ExitCodes :
       /\ pip_present' \in (IF e2 = 0 THEN {TRUE} ELSE BOOLEAN)
       /\ bootExits' = Append(bootExits, e2)
       /\ FinishTail(IF e2 = 0 THEN hfExit[1] ELSE e2)
  /\ subprocs' = subprocs \ {<<"get-pip.py", step>>}
  /\ get_pip_file' = FALSE
  /\ pc' = "idle" /\ hfExit' = << >>
  /\ UNCHANGED <<envVars, venv_dir_exists, venv_py_exists, packages,
                 venv_update_process, commands, procExit, progress_max, message_bar_id,
                 exitCodes, killed, raised, cancelled, chunks, fetches>>

\* ensure_pip_in_venv lines 149-162: get-pip.py exits and check_call returns
\* (exit 0: pip is installed) or raises CalledProcessError (pip may or may not
\* be there; either way the code only logs); finally removes the script.
\* handle_finished then goes on at line 243.
check_call_returns ==
  /\ pc = "check_call"
  /\ \E e2 \in ExitCodes :
       /\ pip_present' \in (IF e2 = 0 THEN {TRUE} ELSE BOOLEAN)
       /\ bootExits' = Append(bootExits, e2)
  /\ subprocs' = subprocs \ {<<"get-pip.py", step>>}
  /\ get_pip_file' = FALSE
  /\ FinishTail(hfExit[1])
  /\ pc' = "idle" /\ hfExit' = << >>
  /\ UNCHANGED <<envVars, venv_dir_exists, venv_py_exists, packages,
                 venv_update_process, commands, procExit, progress_max, message_bar_id,
                 exitCodes, killed, raised, cancelled, chunks, fetches>>

\* _cleanup_process without line 453: the child is killed but the maintainer
\* stays referenced, so finished() of the killed child (a non-zero code) is
\* delivered to it.
_cleanup_process_keepref ==
  /\ pc = "idle" /\ ~cancelled
  /\ venv_update_process # "unset" \/ raised
  /\ cancelled' = TRUE
  /\ IF inflight # {}
     THEN /\ inflight' = {} /\ killed' = TRUE
          /\ \E e \in ExitCodes \ {0} : procExit' = <<e>>
     ELSE UNCHANGED <<inflight, killed, procExit>>
  /\ UNCHANGED <<envVars, fsVars, packages, bootExits, venv_update_process, commands, step, output,
                 procState, progressVars, pc, hfExit,
                 launched, exitCodes, onDoneCalls, subprocs, raised, chunks, fetches>>

\* _cleanup_process asking the child to stop (terminate()) and keeping the
\* maintainer until it has: the child exits with a code of its choosing and
\* finished() is delivered.
_cleanup_process_terminate ==
  /\ pc = "idle" /\ ~cancelled
  /\ venv_update_process # "unset" \/ raised
  /\ cancelled' = TRUE
  /\ IF inflight # {}
     THEN /\ inflight' = {} /\ killed' = TRUE
          /\ \E e \in ExitCodes : procExit' = <<e>>
     ELSE UNCHANGED <<inflight, killed, procExit>>
  /\ UNCHANGED <<envVars, fsVars, packages, bootExits, venv_update_process, commands, step, output,
                 procState, progressVars, pc, hfExit,
                 launched, exitCodes, onDoneCalls, subprocs, raised, chunks, fetches>>

\* HelloQGISPlugin.unload -> _cleanup_process: kill the child and drop the
\* only reference to the VenvMaintainer ("Keeps reference to process object",
\* venv_maintainer.py line 263).  The maintainer and its QProcess are then
\* destroyed, and with them the signal connections: no handler runs again.
\* Without the attribute (the constructor raised) nothing is done.
_cleanup_process ==
  /\ pc = "idle" /\ ~cancelled
  /\ venv_update_process # "unset" \/ raised
  /\ cancelled' = TRUE
  /\ IF venv_update_process = "unset"
     THEN UNCHANGED <<venv_update_process, procState, procExit, inflight, killed, fsVars>>
     ELSE /\ venv_update_process' = "None"
          /\ procState' = "NotRunning" /\ procExit' = << >>
          /\ inflight' = {}
          /\ killed' = (inflight # {})
          /\ IF inflight # {} /\ SubSeq(commands[step], 2, 3) = <<"-m", "venv">>
             THEN VenvEffect(1) /\ UNCHANGED get_pip_file
             ELSE UNCHANGED fsVars
  /\ UNCHANGED <<envVars, packages, bootExits, commands, step, output, progressVars, pc, hfExit,
                 launched, exitCodes, onDoneCalls, subprocs, raised, chunks, fetches>>

Next ==
  \/ maintain_venv_and_packages
  \/ handle_stdout
  \/ handle_stderr
  \/ ProcessExits
  \/ handle_finished
  \/ urlretrieve_returns
  \/ check_call_returns
  \/ _cleanup_process

Spec == Init /\ [][Next]_vars

\* ------------------------------------------------ planning on every machine
\* The planner and the interpreter locator on every machine of the bounds:
\* every answer of shutil.which with every set of fallback installs.  The
\* only step is the call that plans (and starts the first command).
PlanInit ==
  /\ platform \in Platforms
  /\ which_python \in (IF platform = "win32" THEN WhichResults ELSE {"None"})
  /\ existing \in (IF platform = "win32"
                    THEN SUBSET {Candidates[i] : i \in 1..Len(Candidates)}
                    ELSE {{}})
  /\ venv_dir_exists \in BOOLEAN
  /\ venv_py_exists \in (IF venv_dir_exists THEN BOOLEAN ELSE {FALSE})
  /\ pip_present \in (IF venv_py_exists THEN BOOLEAN ELSE {FALSE})
  /\ get_pip_file = FALSE
  /\ packages \in SeqsUpTo(PkgNames \cup OddPkgNames, MaxPkgs)
  /\ timeout_per_cmd = 900 /\ clock = 0
  /\ venv_update_process = "unset"
  /\ commands = << >> /\ step = 0 /\ output = << >>
  /\ procState = "NotRunning" /\ procExit = << >>
  /\ progress_value = 0 /\ progress_max = 0 /\ progress_format = ""
  /\ message_bar_id = "None"
  /\ pc = "idle" /\ hfExit = << >>
  /\ launched = << >> /\ exitCodes = << >> /\ onDoneCalls = << >>
  /\ inflight = {} /\ subprocs = {} /\ killed = FALSE
  /\ raised = FALSE /\ cancelled = FALSE
  /\ chunks = 0 /\ fetches = 0 /\ bootExits = << >>

PlanNext == maintain_venv_and_packages

PlanSpec == PlanInit /\ [][PlanNext]_vars

\* ------------------------------------------------------- the clock
\* A timeout of a running command that expires: the child is killed and the
\* pipeline fails.
Tick_timeout ==
  /\ inflight # {} /\ clock < MaxTicks
  /\ clock' = clock + 1
  /\ IF clock' > timeout_per_cmd
     THEN /\ inflight' = {} /\ procState' = "NotRunning"
          /\ progress_format' = "Venv update failed"
          /\ OnDone(FALSE)
     ELSE UNCHANGED <<inflight, procState, progress_format, onDoneCalls>>
  /\ UNCHANGED <<platform, which_python, existing, timeout_per_cmd, fsVars, packages,
                 venv_update_process, commands, step, output, procExit,
                 progress_value, progress_max, message_bar_id, pc, hfExit,
                 launched, exitCodes, subprocs, killed, raised, cancelled,
                 chunks, fetches, bootExits>>

\* A second passes while a child of self.process runs.  Nothing of
\* VenvMaintainer watches the time: timeout_per_cmd is not handed to it
\* (line 265) and its QProcess is started without a timer (lines 83-87, 221).
Tick ==
  /\ inflight # {} /\ clock < MaxTicks
  /\ clock' = clock + 1
  /\ UNCHANGED <<platform, which_python, existing, timeout_per_cmd, fsVars, packages,
                 venv_update_process, commands, step, output, procState, procExit,
                 progressVars, pc, hfExit,
                 launched, exitCodes, onDoneCalls, inflight, subprocs, killed,
                 raised, cancelled, chunks, fetches, bootExits>>

\* The pipeline on one machine (Linux, no environment yet or one already
\* there), called with every timeout_per_cmd, the clock running.
TimeoutInit ==
  /\ platform = "linux" /\ which_python = "None" /\ existing = {}
  /\ venv_dir_exists \in BOOLEAN
  /\ venv_py_exists = venv_dir_exists
  /\ pip_present = venv_py_exists
  /\ get_pip_file = FALSE
  /\ packages \in SeqsUpTo(PkgNames, MaxPkgs)
  /\ timeout_per_cmd \in Timeouts /\ clock = 0
  /\ venv_update_process = "unset"
  /\ commands = << >> /\ step = 0 /\ output = << >>
  /\ procState = "NotRunning" /\ procExit = << >>
  /\ progress_value = 0 /\ progress_max = 0 /\ progress_format = ""
  /\ message_bar_id = "None"
  /\ pc = "idle" /\ hfExit = << >>
  /\ launched = << >> /\ exitCodes = << >> /\ onDoneCalls = << >>
  /\ inflight = {} /\ subprocs = {} /\ killed = FALSE
  /\ raised = FALSE /\ cancelled = FALSE
  /\ chunks = 0 /\ fetches = 0 /\ bootExits = << >>

TimeoutNext == Next \/ Tick

TimeoutSpec == TimeoutInit /\ [][TimeoutNext]_vars

\* ------------------------------------------------------------------ claims
\* maintain_venv_and_packages has been called
Invoked == venv_update_process # "unset" \/ raised

\* Every process launched has exited, every notification has been handled
\* and the UI thread is back in the event loop.
Quiescent == pc = "idle" /\ inflight = {} /\ subprocs = {} /\ procExit = << >>

FailedCall == [success |-> FALSE, venv_dir |-> venv_dir, output |-> output]
SucceededCall == [success |-> TRUE, venv_dir |-> venv_dir, output |-> output]

\* C1: at most one external process (a planned command or the bootstrap
\* script) is in flight at any time, and a command is launched only when
\* every command launched before it has reported its termination.
C1_OneInFlight ==
  /\ Cardinality(inflight \cup subprocs) <= 1
  /\ Len(launched) <= Len(exitCodes) + 1

C1_Witness == Len(launched) >= 3 /\ inflight # {} /\ fetches = 1

\* C2: a provisioning invocation that is not cancelled and whose processes
\* have all terminated has invoked onDone exactly once, whatever the outcome;
\* onDone is never invoked twice.
C2_OnDoneExactlyOnce ==
  /\ Len(onDoneCalls) <= 1
  /\ (Invoked /\ ~cancelled /\ Quiescent) => Len(onDoneCalls) = 1

\* C3: when unload kills the in-flight process, that process is terminated
\* and onDone is not invoked, neither before nor after.
C3_CancelNoOnDone ==
  killed => (onDoneCalls = << >> /\ inflight = {} /\ subprocs = {})

C3_Witness == killed /\ Len(launched) >= 2 /\ chunks = 1

\* C4: once a planned command has reported a non-zero exit code and its handler
\* has returned, onDone has been invoked exactly once, with success = false,
\* the environment path and the aggregated output, and never with success = true.
C4_FailureReported ==
  (pc = "idle" /\ \E i \in 1..Len(exitCodes) : exitCodes[i] # 0)
    => onDoneCalls = <<FailedCall>>

C4_Witness ==
  /\ Len(exitCodes) >= 2 /\ exitCodes[Len(exitCodes)] = 2 /\ chunks = 1
  /\ onDoneCalls = <<FailedCall>>

\* C5: when every planned command has reported exit code 0, onDone has been
\* invoked exactly once, with success = true, and step = len(commands); and
\* onDone(true) is invoked only then.
C5_SuccessReported ==
  /\ (pc = "idle" /\ commands # << >> /\ exitCodes = [i \in 1..Len(commands) |-> 0])
       => (onDoneCalls = <<SucceededCall>> /\ step = Len(commands))
  /\ \A k \in 1..Len(onDoneCalls) :
       onDoneCalls[k].success =>
         /\ step = Len(commands)
         /\ exitCodes = [i \in 1..Len(commands) |-> 0]
         /\ Len(onDoneCalls) = 1

C5_Witness ==
  /\ onDoneCalls # << >> /\ onDoneCalls[1].success
  /\ Len(commands) = 5 /\ step = 5

\* C6: once onDone has reported Failed or Succeeded, no command is launched
\* and step does not change.
C6_TerminalFrozen ==
  [][onDoneCalls # << >> => (launched' = launched /\ step' = step)]_vars

C6_Witness ==
  /\ onDoneCalls # << >> /\ ~onDoneCalls[1].success
  /\ step < Len(commands) /\ cancelled

\* C7: the commands launched so far are a prefix of the planned list, also
\* after a failure.
C7_LaunchedIsPrefix ==
  /\ Len(launched) <= Len(commands)
  /\ launched = SubSeq(commands, 1, Len(launched))
  /\ step = Len(launched)

C7_Witness ==
  /\ Len(launched) = 4 /\ Len(commands) = 5
  /\ onDoneCalls # << >> /\ ~onDoneCalls[1].success

\* C8: the UI thread never waits for a transfer or for a child process: it
\* is in the host's event loop in every state.
C8_NeverBlocked == pc \notin {"urlretrieve", "check_call"}

\* C9: no exception leaves maintain_venv_and_packages; a missing interpreter
\* is reported through onDone(false, ...).
C9_NoExceptionCrosses ==
  /\ ~raised
  /\ (Invoked /\ _get_python_executable(platform, which_python, existing) = NoInterpreter)
       => (onDoneCalls # << >> /\ ~onDoneCalls[1].success)

\* C10: when no acceptable interpreter exists, no process is launched, no
\* progress is shown and the environment on disk is not touched.
C10_NothingBeforeFailure ==
  /\ [](_get_python_executable(platform, which_python, existing) = NoInterpreter
          => /\ launched = << >> /\ inflight = {} /\ subprocs = {}
             /\ message_bar_id = "None" /\ progress_value = 0
             /\ fetches = 0 /\ output = << >>)
  /\ [][_get_python_executable(platform, which_python, existing) = NoInterpreter
          => UNCHANGED fsVars]_vars

C10_Witness == raised /\ cancelled

\* The commands of a plan that install a package with uv, and what they name.
IsPkgInstall(cmd) == Len(cmd) = 7 /\ cmd[3] = "uv" /\ cmd[5] = "install"
InstalledPkgs(cmds) ==
  LET inst == SelectSeq(cmds, IsPkgInstall) IN [k \in 1..Len(inst) |-> inst[k][7]]

\* A command that creates the environment.
IsCreate(cmd) == cmd[2] = "-m" /\ cmd[3] = "venv" /\ cmd[Len(cmd)] = venv_dir

\* C11: the plan holds one install command per entry of packages, duplicates
\* included, in the order of the list, the k-th naming the k-th package.
C11_OneInstallPerPackage ==
  commands # << >> =>
    /\ InstalledPkgs(commands) = packages
    /\ \A k \in 1..Len(packages) :
         IsPkgInstall(commands[Len(commands) - Len(packages) + k])

C11_Witness == commands # << >> /\ packages = <<"pkgB", "pkgA">>

\* C12: the plan holds a create-environment command if and only if the
\* environment directory is absent when the plan is made; it is then the
\* first command and the only one.
C12_CreateIffAbsent ==
  commands # << >> =>
    /\ IsCreate(commands[1]) <=> ~venv_dir_exists
    /\ \A i \in 2..Len(commands) : ~IsCreate(commands[i])

C12_Witness == commands # << >> /\ venv_dir_exists /\ ~venv_py_exists

\* C13: the plan is [create if the environment is absent, upgrade pip and the
\* build tools, install uv, one install per package]; its length is
\* len(packages) + 2, one more when the environment is absent, and the progress
\* bar's maximum is that length.
C13_PlanShape ==
  commands # << >> =>
    LET o == IF venv_dir_exists THEN 0 ELSE 1 IN
    /\ Len(commands) = Len(packages) + 2 + o
    /\ progress_max = Len(commands)
    /\ o = 1 => IsCreate(commands[1])
    /\ Tail(commands[o + 1]) =
         <<"-m", "pip", "install", "--upgrade", "pip", "setuptools", "wheel">>
    /\ Tail(commands[o + 2]) = <<"-m", "pip", "install", "uv">>
    /\ \A k \in 1..Len(packages) :
         /\ IsPkgInstall(commands[o + 2 + k])
         /\ commands[o + 2 + k][7] = packages[k]

C13_Witness ==
  Len(commands) = 5 /\ packages = <<"pkgA", "pkgB">> /\ ~venv_dir_exists

\* C15: on Windows the locator never hands out the host's own interpreter,
\* whatever shutil.which answers and whichever fallback installs exist; when
\* the host's interpreter is the only one found, the call fails instead.
C15_HostInterpreterExcluded ==
  (platform = "win32" /\ Invoked) =>
    /\ \A i \in 1..Len(launched) : ~HostInterpreter(launched[i][1])
    /\ (HostInterpreter(which_python) /\ existing = {}) => raised

\* C16: the bootstrap repair (its download, its run of get-pip.py) happens
\* only inside the handler of a create-environment command that exited 0.
C16_RepairOnlyAfterGoodCreate ==
  /\ pc \in {"urlretrieve", "check_call"}
       => (hfExit = <<0>> /\ step > 0 /\ IsCreate(commands[step]))
  /\ fetches > 0 => (exitCodes[1] = 0 /\ IsCreate(commands[1]))

\* C17: when the repair has returned and pip is still absent, the pipeline has
\* failed: onDone(false, ...) was invoked and no command after the create
\* command was launched.
C17_RepairFailureIsFatal ==
  (pc = "idle" /\ fetches > 0 /\ ~pip_present /\ ~cancelled)
    => /\ onDoneCalls # << >> /\ ~onDoneCalls[1].success
       /\ Len(launched) = 1

\* C18: when the create command exited 0, pip was missing and get-pip.py
\* exits non-zero with pip present afterwards, the handler invokes no onDone
\* and launches the next planned command.
C18_ToleratedBootstrapFailure ==
  [][(/\ pc = "check_call" /\ hfExit = <<0>>
      /\ bootExits' # bootExits /\ bootExits'[Len(bootExits')] # 0
      /\ pip_present')
     => /\ onDoneCalls' = onDoneCalls
        /\ launched' = Append(launched, commands[step + 1])
        /\ step' = step + 1]_vars

C18_Witness ==
  /\ bootExits = <<2>> /\ pip_present /\ exitCodes = <<0>>
  /\ Len(launched) = 2 /\ onDoneCalls = << >> /\ pc = "idle"

\* The scenario of C19: packages = [pkgA, pkgB], environment absent, every
\* command exits 0 but "install pkgB", which exits 2.
PkgBFails ==
  /\ packages = <<"pkgA", "pkgB">>
  /\ Len(commands) = 5 /\ IsCreate(commands[1])
  /\ exitCodes = <<0, 0, 0, 0, 2>>
  /\ pc = "idle"

\* The output notifications (not the "Running:" headers) recorded in out.
ChunksIn(out) == Cardinality({i \in 1..Len(out) : out[i][1] # "Running"})

\* C19 as stated: in that scenario the pipeline has failed with step = 3 and
\* onDone(false, envPath, output) carries the pkgB step's output.
C19_FailsAtIndex3 ==
  PkgBFails =>
    /\ step = 3
    /\ onDoneCalls = <<FailedCall>>
    /\ \E i \in 1..Len(output) : output[i] = <<"Running", 5>>

\* C19 amended: in that scenario the pipeline has failed with step = 5 (step
\* counts the commands launched, the failing one included) and onDone(false,
\* envPath, output) carries the whole output, the pkgB step's included.
C19_FailsAtStep5 ==
  PkgBFails =>
    /\ step = 5
    /\ onDoneCalls = <<FailedCall>>
    /\ \E i \in 1..Len(output) : output[i] = <<"Running", 5>>
    /\ ChunksIn(onDoneCalls[1].output) = chunks

C19_Witness ==
  /\ PkgBFails /\ onDoneCalls # << >>
  /\ onDoneCalls[1].output[Len(output)] = <<"stderr", 5>>

\* C20: the output handed to onDone(false, ...) is the final output: nothing
\* is appended once the pipeline has failed.
C20_NoOutputAfterFailure ==
  \A k \in 1..Len(onDoneCalls) :
    ~onDoneCalls[k].success => onDoneCalls[k].output = output

C20_Witness ==
  /\ onDoneCalls # << >> /\ ~onDoneCalls[1].success
  /\ chunks = 1 /\ Len(exitCodes) >= 2 /\ Len(output) >= 3

\* The status of the pipeline: Pending until the maintainer is constructed,
\* Running until on_done is called, then what on_done was told.
Status ==
  IF onDoneCalls # << >>
  THEN IF onDoneCalls[Len(onDoneCalls)].success THEN "Succeeded" ELSE "Failed"
  ELSE IF venv_update_process = "unset" THEN "Pending" ELSE "Running"

StatusMoves ==
  { <<"Pending", "Running">>, <<"Running", "Succeeded">>, <<"Running", "Failed">> }
    \cup { <<st, st>> : st \in {"Pending", "Running", "Succeeded", "Failed"} }

\* C21: step starts at 0, never decreases, changes only by 1 and stays within
\* 0..len(commands); the status moves only Pending -> Running -> Succeeded or
\* Failed, and a terminal status is never left.
C21_StepAndStatus ==
  /\ (step = 0 /\ Status = "Pending")
  /\ [](0 <= step /\ step <= Len(commands))
  /\ [][/\ step' \in {step, step + 1}
        /\ <<Status, Status'>> \in StatusMoves]_vars

C21_Witness ==
  /\ Status = "Succeeded" /\ step = 5 /\ Len(commands) = 5
  /\ exitCodes = <<0, 0, 0, 0, 0>>

\* a is an initial part of b
IsPrefix(a, b) == Len(a) <= Len(b) /\ SubSeq(b, 1, Len(a)) = a

\* C22: the output is append-only: over every step (launch, stdout, stderr,
\* termination, repair, cancellation) the old output is a prefix of the new.
C22_OutputAppendOnly == [][IsPrefix(output, output')]_vars

C22_Witness ==
  /\ Len(output) >= 4 /\ chunks = 1 /\ fetches = 1 /\ bootExits # << >>
  /\ output[2][1] = "stderr"

\* C23: once the repair has attempted a download and returned, the bootstrap
\* script get-pip.py is not in the environment, whatever the outcome.
C23_ScriptRemoved == (fetches > 0 /\ pc = "idle") => ~get_pip_file

\* The planned commands that have completed with exit code 0
Completed == {i \in 1..Len(exitCodes) : exitCodes[i] = 0}

\* C24: the progress bar's value is the number of planned commands that have
\* completed successfully: it counts neither the command that is running nor
\* one that failed.
C24_ProgressCountsSuccesses == progress_value = Cardinality(Completed)

\* C25: the progress counter is bounded, 0 <= value <= maximum with the
\* maximum the number of planned commands, and on success the bar is marked
\* complete with value = maximum.
C25_ProgressBounded ==
  /\ 0 <= progress_value /\ progress_value <= progress_max
  /\ progress_max = Len(commands)
  /\ \A k \in 1..Len(onDoneCalls) :
       onDoneCalls[k].success =>
         /\ progress_value = progress_max
         /\ progress_format = "Venv update completed!"

C25_Witness ==
  /\ onDoneCalls # << >> /\ onDoneCalls[1].success
  /\ progress_value = 4 /\ progress_max = 4 /\ venv_update_process = "maintainer"

\* C26: in one run get-pip.py is fetched at most once, only by the repair
\* that follows the create command and only when pip is absent at the probe;
\* nothing is fetched when the plan has no create command (the environment
\* existed when the plan was made).
C26_FetchAtMostOnce ==
  /\ [](/\ fetches <= 1
        /\ fetches > 0 => (IsCreate(commands[1]) /\ Len(commands) = Len(packages) + 3))
  /\ [][fetches' # fetches =>
          /\ fetches' = 1 /\ ~pip_present
          /\ step = 1 /\ IsCreate(commands[1])
          /\ pc = "idle" /\ pc' = "urlretrieve"]_vars

C26_Witness ==
  /\ fetches = 1 /\ Len(exitCodes) = Len(commands) /\ Len(commands) = 5
  /\ onDoneCalls # << >> /\ ~pip_present

\* C27: there is no per-command timeout: over every step that is neither the
\* termination of the in-flight process nor a cancellation, the process stays
\* in flight, the pipeline stays Running, no other command is launched and
\* on_done is not invoked, whatever timeout_per_cmd is and however long the
\* process has run.
C27_NoTimeout ==
  [][(inflight # {} /\ procExit' = procExit /\ ~cancelled')
       => /\ inflight' = inflight
          /\ Status' = "Running"
          /\ launched' = launched
          /\ onDoneCalls' = onDoneCalls]_vars

C27_Witness ==
  /\ clock = MaxTicks /\ clock > timeout_per_cmd
  /\ step = 1 /\ inflight = {<<"cmd", 1>>} /\ Status = "Running"

\* C28: after cancellation no further planned command is launched and the
\* repair is not started (no download, no bootstrap process, the UI thread
\* stays in the event loop), whichever command was in flight.
C28_NothingAfterCancel ==
  [][cancelled' => /\ launched' = launched
                   /\ fetches' = fetches
                   /\ subprocs' = subprocs
                   /\ pc' = "idle"]_vars

C28_Witness ==
  /\ cancelled /\ killed /\ step = 1 /\ IsCreate(commands[1])
  /\ venv_dir_exists /\ venv_py_exists /\ ~pip_present
  /\ launched = <<commands[1]>> /\ fetches = 0

\* The pipeline can move: a child can exit, a notification can be handled or
\* a blocking call can return.
CanMove ==
  ENABLED (ProcessExits \/ handle_finished \/ urlretrieve_returns \/ check_call_returns)

\* C29: a pipeline that is Running and not cancelled never stays Running for
\* ever: also when the process of a command could not be started, something
\* is still to happen that leads to on_done(False, ...).
C29_FailsWhenNotStarted == (Status = "Running" /\ ~cancelled) => CanMove

\* C30: handle_finished takes a command of the plan for the venv creation
\* exactly when it is the create command the planner emitted (the first
\* command of a plan made with the environment absent), whatever the packages
\* are called; so at most one command of a plan is followed by the probe, and
\* none when the environment existed.
C30_CreateClassified ==
  commands # << >> =>
    /\ \A i \in 1..Len(commands) :
         is_venv_creation(commands[i]) <=> (i = 1 /\ ~venv_dir_exists)
    /\ Cardinality({i \in 1..Len(commands) : is_venv_creation(commands[i])})
         = (IF venv_dir_exists THEN 0 ELSE 1)

C30_Witness ==
  /\ commands # << >> /\ ~venv_dir_exists
  /\ packages = <<"venv", "-m">>
  /\ is_venv_creation(commands[1]) /\ ~is_venv_creation(commands[4])

====
